---- MODULE Spec2Model ----
(***************************************************************************)
(* OMR scanner: the batch pipeline of the App component (uploads, paired   *)
(* buckets, work queue, bounded-concurrency dispatch, progress, batch      *)
(* report, records store) and the recognition call of                      *)
(* services/geminiService.ts (retry with exponential backoff).             *)
(*                                                                         *)
(* The repository holds several revisions of the App component.  The      *)
(* model follows the latest one, the revision with processQueue and the    *)
(* paired buckets; the dispatch loop of the earlier revisions is the same  *)
(* code with CONCURRENCY_LIMIT = 5.                                        *)
(*                                                                         *)
(* One action is one task of the JavaScript event loop together with the   *)
(* microtasks it triggers: nothing else can run between a promise          *)
(* settling and the continuations that wait for it.  The reading of the    *)
(* files of an upload is taken as part of the task that starts the         *)
(* handler.                                                                *)
(*                                                                         *)
(* Several specifications share the module.  Spec is the application: to   *)
(* the dispatcher a processOmrImage call is one pending promise that       *)
(* returns or throws.  SpecTabs is Spec with the tabs and with results     *)
(* that differ, on shorter inputs.  SpecQueue and SpecPaired build the     *)
(* queues of longer inputs.  SpecStore is Spec with the operations on the  *)
(* records store, SpecOracle the upload area with the responses of the     *)
(* oracle in place of results, SpecCsv one call of escapeCsv.              *)
(* SpecGateway is one processItem call seen from inside: the retry loop    *)
(* of processOmrImage, oracle call by oracle call.                         *)
(***************************************************************************)
EXTENDS Integers, Sequences, FiniteSets, TLC

\* ------------------------------------------------------------------ bounds
MaxInput == 4      \* images taken in in one behaviour: image files and PDF
                   \* pages read by the uploads (an empty or unreadable PDF
                   \* counts as one) plus bucket images queued by
                   \* handleProcessSeparate
MaxTabInput == 2   \* the same, in SpecTabs
MaxQueue == 7      \* the same, in SpecQueue
MaxPaired == 6     \* the same, in SpecPaired
MaxStore == 3      \* the same, in SpecStore
MaxOracle == 2     \* the same, in SpecOracle
MaxHint == 4       \* the same, in SpecHint
MaxClear == 2      \* the same, in SpecClear
MaxLen == 4        \* the length of the strings handed to escapeCsv

\* --------------------------------------------------------------- constants
Null == "null"
Undefined == "undefined"
NoProgress == <<>>     \* progress is null; otherwise <<[current, total]>>
NoGroup == 0           \* groupId null, linkedGroupId undefined; UUIDs are 1, 2, ...

IDLE == "IDLE"
SCANNING == "SCANNING"
SUCCESS == "SUCCESS"
ERROR == "ERROR"

STUDENT_INFO == "Page 1 (Info)"
VIBE_MATCH == "Page 2 (VibeMatch)"
EDU_STATS == "Page 3 (EduStats)"
MIX == "Mix (Auto-Detect)"
SEPARATE == "SEPARATE"   \* the tab of the paired buckets

maxRetries == 3

MsgQuota == "Failed to process items. Please check your API quota."
MsgReadFiles == "Failed to read files (PDF conversion or image reading failed)."
MsgExtract == "Failed to extract images."

CONCURRENCY_LIMIT == 3

VARIABLES
    activeTab,        \* PageType: the tab shown
    status,           \* ScanStatus
    errorMsg,         \* string or Null
    progress,         \* NoProgress or <<[current, total]>>
    records,          \* the records store, most recent first
    separateImages,   \* the buckets p1, p2, p3
    timers,           \* pending setTimeout(() => setStatus(IDLE), 500)
    uuid,             \* number of crypto.randomUUID() values handed out
    scanned,          \* number of images read from files so far
    input,            \* images taken in so far (what MaxInput bounds)
    runs,             \* the processQueue calls that have not returned
    ended,            \* the handler call that came to its end in the task
                      \* just run: the processQueue call that returned
                      \* (pc "done"), its locals at the return, or the
                      \* upload whose files could not be read (pc "thrown",
                      \* "hung"); NoRun if none
    gwPc,             \* one processItem call: where processOmrImage stands
    gwScript,         \* what the oracle answers to its 1st, 2nd, ... call
    gwRetryCount,     \* retryCount
    gwCalls,          \* oracle calls made (generateContent)
    gwTimer,          \* the pending backoff timer in ms, 0 when none
    gwWaited,         \* backoff waited so far, ms
    gwResult,         \* what processItem returned: "pending", "true", "false"
    csvVal,           \* escapeCsv: the value it is called with
    csvOut            \* escapeCsv: the string it returned, empty before the call

appVars == <<activeTab, status, errorMsg, progress, records, separateImages,
             timers, uuid, scanned, input, runs, ended>>
gwVars == <<gwPc, gwScript, gwRetryCount, gwCalls, gwTimer, gwWaited, gwResult>>
csvVars == <<csvVal, csvOut>>
vars == <<activeTab, status, errorMsg, progress, records, separateImages, timers,
          uuid, scanned, input, runs, ended,
          gwPc, gwScript, gwRetryCount, gwCalls, gwTimer, gwWaited, gwResult,
          csvVal, csvOut>>

\* ------------------------------------------------- the recognition gateway
\* What can come out of the try block of processOmrImage: it completes
\* (the response text parsed), or something in it throws.  An error is
\* known by what the catch block looks at: error.status and whether
\* error.message contains '429' or 'RESOURCE_EXHAUSTED'.  status 0 stands
\* for an error without a status (a SyntaxError of JSON.parse, a network
\* error); Parsed, the one outcome that is no error, is written as a record
\* of the same shape.
ErrorStatus == {0, 429, 500}
Errors == [status : ErrorStatus, has429 : BOOLEAN, hasExhausted : BOOLEAN]
Parsed == [status |-> 200, has429 |-> FALSE, hasExhausted |-> FALSE]
Outcomes == {Parsed} \cup Errors

isRateLimit(error) ==
    error.has429 \/ error.hasExhausted \/ error.status = 429

RECURSIVE pow2(_)
pow2(k) == IF k = 0 THEN 1 ELSE 2 * pow2(k - 1)

\* A backoff that grows linearly.
waitTimeLinear(retryCount) == retryCount * 2 * 1000

\* Math.pow(2, retryCount) * 1000
waitTime(retryCount) == pow2(retryCount) * 1000

\* A loop that retries while retryCount <= maxRetries.
willRetryInclusive(error, retryCount) ==
    isRateLimit(error) /\ retryCount <= maxRetries

\* A retry limit of one.
willRetryOnce(error, retryCount) == isRateLimit(error) /\ retryCount < 1

\* isRateLimit && retryCount < maxRetries
willRetry(error, retryCount) == isRateLimit(error) /\ retryCount < maxRetries

\* ------------------------------------------------------------ work items
\* A work item: base64 is the image payload (a token, one per image read,
\* in the order of reading), groupId a UUID token or NoGroup.  An item of
\* handleFileUpload has fileType and fileName (the files of one selection
\* are named 1, 2, ... in their order) and no predefinedType; an item of
\* handleProcessSeparate has a predefinedType and neither of the two.
FileItem(base64, fileType, fileName, groupId) ==
    [base64 |-> base64, fileType |-> fileType, fileName |-> fileName,
     groupId |-> groupId, predefinedType |-> Undefined]

WorkItem(base64, groupId, predefinedType) ==
    [base64 |-> base64, fileType |-> Undefined, fileName |-> Undefined,
     groupId |-> groupId, predefinedType |-> predefinedType]

\* An item put at the head of the queue.
unshift(itemsToProcess, item) == <<item>> \o itemsToProcess

\* itemsToProcess.push(item)
push(itemsToProcess, item) == Append(itemsToProcess, item)

\* The test of the one-based page loop, used on the zero-based index.
startsGroupOneBased(index) == index > 1 /\ (index - 1) % 3 = 0

\* A new identifier on every page.
startsGroupEachPage(index) == index > 0

\* index > 0 && index % 3 === 0
startsGroup(index) == index > 0 /\ index % 3 = 0

\* rawImages.forEach of handleFileUpload: the pages of the PDF fileName,
\* from page index on; cur is currentGroupId, u the UUIDs handed out so
\* far.
RECURSIVE forEachPage(_, _, _, _, _, _, _)
forEachPage(index, pages, fileName, cur, u, base, acc) ==
    IF index >= pages THEN [items |-> acc, uuid |-> u]
    ELSE LET fresh == startsGroup(index)
             u1 == IF fresh THEN u + 1 ELSE u
             cur1 == IF fresh THEN u + 1 ELSE cur
         IN forEachPage(index + 1, pages, fileName, cur1, u1, base,
                push(acc, FileItem(base + index + 1, "pdf_page", fileName, cur1)))

\* The file kinds of an upload.
File(n) == [type : {"image"}, pages : {1}] \cup [type : {"pdf"}, pages : 0..n]

\* The for loop over fileList of handleFileUpload (upload target 'mix'),
\* from file k on.  failAt is the file whose preparation fails (0: none).
\* A PDF that fails rejects (thrown); an image whose read fails never
\* settles, since the reader has no onerror handler (hung).
RECURSIVE prepareFiles(_, _, _, _, _, _)
prepareFiles(fileList, k, failAt, u, base, acc) ==
    IF k > Len(fileList) THEN [end |-> "ok", items |-> acc, uuid |-> u]
    ELSE IF k = failAt
         THEN [end |-> IF fileList[k].type = "pdf" THEN "thrown" ELSE "hung",
               items |-> acc, uuid |-> u]
    ELSE IF fileList[k].type = "pdf"
         THEN LET r == forEachPage(0, fileList[k].pages, k, u + 1, u + 1,
                                   base + Len(acc), acc)
              IN prepareFiles(fileList, k + 1, failAt, r.uuid, base, r.items)
    ELSE prepareFiles(fileList, k + 1, failAt, u, base,
             push(acc, FileItem(base + Len(acc) + 1, "image", k, NoGroup)))

\* The for loop over fileList of handleFileUpload for a bucket: the images
\* of the files in order, no grouping.
RECURSIVE extractFiles(_, _, _, _, _)
extractFiles(fileList, k, failAt, base, newImages) ==
    IF k > Len(fileList) THEN [end |-> "ok", newImages |-> newImages]
    ELSE IF k = failAt
         THEN [end |-> IF fileList[k].type = "pdf" THEN "thrown" ELSE "hung",
               newImages |-> newImages]
    ELSE extractFiles(fileList, k + 1, failAt, base,
             newImages \o [p \in 1..fileList[k].pages |->
                              base + Len(newImages) + p])

\* The for loop of handleProcessSeparate from index i on: one fresh group
\* id per index, one item per bucket that has an image at the index.
RECURSIVE pairBuckets(_, _, _, _, _)
pairBuckets(i, maxLen, images, u, acc) ==
    IF i >= maxLen THEN [items |-> acc, uuid |-> u]
    ELSE LET groupId == u + 1
             a1 == IF i < Len(images.p1)
                   THEN Append(acc, WorkItem(images.p1[i + 1], groupId, STUDENT_INFO))
                   ELSE acc
             a2 == IF i < Len(images.p2)
                   THEN Append(a1, WorkItem(images.p2[i + 1], groupId, VIBE_MATCH))
                   ELSE a1
             a3 == IF i < Len(images.p3)
                   THEN Append(a2, WorkItem(images.p3[i + 1], groupId, EDU_STATS))
                   ELSE a2
         IN pairBuckets(i + 1, maxLen, images, u + 1, a3)

\* The third bucket left out of the maximum.
MaxOfTwo(a, b, c) == IF a >= b THEN a ELSE b

\* Math.max(len1, len2, len3)
Max3(a, b, c) ==
    IF a >= b /\ a >= c THEN a ELSE IF b >= c THEN b ELSE c

NoImages == [p1 |-> <<>>, p2 |-> <<>>, p3 |-> <<>>]

\* ------------------------------------------------------------- dispatcher
\* The ceiling tested one promise too late.
atCapacityLate(size, limit) == size > limit

\* A loop that never waits.
atCapacityNever(size, limit) == FALSE

\* activePromises.size >= CONCURRENCY_LIMIT
atCapacity(size, limit) == size >= limit

\* promise.then(() => activePromises.delete(promise))
deletePromise(active, i) == active \ {i}

\* What a processOmrImage call comes to: it throws, or it returns a
\* result, of which processItem reads pageType, data and confidenceScore
\* (a score is written in tenths).  The function as it is in
\* services/geminiService.ts returns data and confidenceScore only, so
\* that pageType reads as undefined; processItem is written for one that
\* returns the variant it found.
Thrown == [thrown |-> TRUE]
NoResult == [pending |-> TRUE]
ResultsOf(pageTypes, scores, datas) ==
    [pageType : pageTypes, confidenceScore : scores, data : datas]

\* A hint that is the tab whatever the item says.
targetTypeOfTab(item, tab) == tab

\* A hint read from the tab of the moment, as through a ref.
targetTypeLive(item, tab) ==
    IF item.predefinedType # Undefined THEN item.predefinedType ELSE activeTab

\* item.predefinedType || activeTab, with the activeTab of the render whose
\* handler called processQueue.
targetType(item, tab) ==
    IF item.predefinedType # Undefined THEN item.predefinedType ELSE tab

\* processItem(item) is called: the call of processOmrImage starts at once.
dispatch(tk, k) ==
    [tk EXCEPT ![k].phase = "call", ![k].invoked = tk[k].invoked + 1]

\* The promise of item j (processItem(item).then(...)) is resolved.
resolved(tk, j) == tk[j].phase \in {"returned", "failed"}

\* The for loop over the queue from item k on, up to the next await that
\* has to wait: Promise.race over a set that holds a resolved promise
\* resolves at once.
RECURSIVE forLoop(_, _, _)
forLoop(k, active, tk) ==
    IF k > Len(tk)
    THEN [pc |-> "all", nextItem |-> k, activePromises |-> active, task |-> tk]
    ELSE IF atCapacity(Cardinality(active), CONCURRENCY_LIMIT)
            /\ \A j \in active : ~resolved(tk, j)
    THEN [pc |-> "race", nextItem |-> k, activePromises |-> active, task |-> tk]
    ELSE forLoop(k + 1, active \cup {k}, dispatch(tk, k))

\* A loop that drops the item it was waiting to dispatch.
afterRaceSkips(k, active, tk) == forLoop(k + 1, active, tk)

\* The loop resumes after await Promise.race: item k is dispatched and the
\* loop goes on.
afterRace(k, active, tk) ==
    forLoop(k + 1, active \cup {k}, dispatch(tk, k))

failCount(res) == Cardinality({j \in 1..Len(res) : ~res[j]})

\* failCount === totalItems
allFailed(res, totalItems) == failCount(res) = totalItems

\* The updater of setProgress in the finally block of processItem.
bumpProgress(prev, totalItems) ==
    IF prev = NoProgress THEN <<[current |-> 1, total |-> totalItems]>>
    ELSE <<[prev[1] EXCEPT !.current = IF prev[1].current + 1 < totalItems
                                       THEN prev[1].current + 1 ELSE totalItems]>>

\* The fields read off a sheet, an object: a function from the names of
\* its keys to their values; a key whose value is undefined is left out.
Sheet == [studentId |-> "100118"]

\* new Date().toISOString() in the task that creates record id: the
\* clock is read off the identifiers handed out, of which the record's is
\* the latest; neither ever goes back.
toISOString(id) == id

\* The new record put behind the records there are.
append(newRec, prev) == prev \o <<newRec>>

\* setRecords(prev => [newRecord, ...prev])
prepend(newRec, prev) == <<newRec>> \o prev

\* A record that is named after its group.
newRecordOfGroup(id, item, result, hint) ==
    [id |-> IF item.groupId # NoGroup THEN item.groupId ELSE id,
     scannedAt |-> toISOString(id),
     originalImageUrl |-> item.base64,
     pageType |-> result.pageType,
     data |-> result.data,
     confidenceScore |-> result.confidenceScore,
     linkedGroupId |-> IF item.groupId # NoGroup THEN item.groupId ELSE NoGroup]

\* A record that loses the link to its group.
newRecordUnlinked(id, item, result, hint) ==
    [id |-> id,
     scannedAt |-> toISOString(id),
     originalImageUrl |-> item.base64,
     pageType |-> result.pageType,
     data |-> result.data,
     confidenceScore |-> result.confidenceScore,
     linkedGroupId |-> NoGroup]

\* A record that makes a group of its own when its item has none.
newRecordOwnGroup(id, item, result, hint) ==
    [id |-> id,
     scannedAt |-> toISOString(id),
     originalImageUrl |-> item.base64,
     pageType |-> result.pageType,
     data |-> result.data,
     confidenceScore |-> result.confidenceScore,
     linkedGroupId |-> IF item.groupId # NoGroup THEN item.groupId ELSE id]

\* A record that takes the variant that was asked for (hint is targetType).
newRecordOfHint(id, item, result, hint) ==
    [id |-> id,
     scannedAt |-> toISOString(id),
     originalImageUrl |-> item.base64,
     pageType |-> hint,
     data |-> result.data,
     confidenceScore |-> result.confidenceScore,
     linkedGroupId |-> IF item.groupId # NoGroup THEN item.groupId ELSE NoGroup]

newRecord(id, item, result, hint) ==
    [id |-> id,
     scannedAt |-> toISOString(id),
     originalImageUrl |-> item.base64,
     pageType |-> result.pageType,
     data |-> result.data,
     confidenceScore |-> result.confidenceScore,
     linkedGroupId |-> IF item.groupId # NoGroup THEN item.groupId ELSE NoGroup]

\* An item of the queue that the loop has not reached; result is what its
\* processOmrImage call came to, once it has.
queued == [phase |-> "queued", invoked |-> 0, result |-> NoResult]

\* One processQueue call: its locals and what it closes over, the
\* activeTab of the render of its handler, and the handler's own
\* fileList, or separate when handleProcessSeparate made the call.
NoRun ==
    [items |-> <<>>, task |-> <<>>, nextItem |-> 1,
     activePromises |-> {}, results |-> <<>>, pc |-> "none",
     startRecords |-> <<>>, separate |-> FALSE,
     activeTab |-> Undefined, fileList |-> <<>>]

\* The handleFileUpload call that stopped in its preparation loop: the
\* loop threw and the catch block returned, or an await never settled.
Unread(end, fileList, itemsToProcess) ==
    [NoRun EXCEPT !.pc = end, !.fileList = fileList, !.items = itemsToProcess]

\* await Promise.all(activePromises) has nothing left to wait for.
allDone(L) ==
    L.pc = "all" /\ \A j \in L.activePromises : resolved(L.task, j)

RemoveAt(s, r) == SubSeq(s, 1, r - 1) \o SubSeq(s, r + 1, Len(s))

\* An end of handleProcessSeparate that keeps the images of the buckets.
closeRunKeepsImages(run, rest, msg) ==
    /\ runs' = rest
    /\ ended' = [run EXCEPT !.pc = "done"]
    /\ progress' = NoProgress
    /\ IF allFailed(run.results, Len(run.items))
       THEN /\ status' = ERROR
            /\ errorMsg' = MsgQuota
       ELSE /\ status' = SUCCESS
            /\ errorMsg' = msg
    /\ UNCHANGED separateImages

\* The end of processQueue (failCount, setProgress(null), setStatus) and,
\* for handleProcessSeparate, the clearing of the buckets behind it.  rest
\* are the calls that go on, msg the error message before.
closeRun(run, rest, msg) ==
    /\ runs' = rest
    /\ ended' = [run EXCEPT !.pc = "done"]
    /\ progress' = NoProgress
    /\ IF allFailed(run.results, Len(run.items))
       THEN /\ status' = ERROR
            /\ errorMsg' = MsgQuota
       ELSE /\ status' = SUCCESS
            /\ errorMsg' = msg
    /\ separateImages' = IF run.separate THEN NoImages ELSE separateImages

\* processQueue(items), called with the given status and error message:
\* progress, then the loop up to its first await.
processQueue(items, st, msg, separate, fileList) ==
    LET L == forLoop(1, {}, [j \in 1..Len(items) |-> queued])
        run == [items |-> items, task |-> L.task,
                nextItem |-> L.nextItem, activePromises |-> L.activePromises,
                results |-> <<>>, pc |-> L.pc, startRecords |-> records,
                separate |-> separate, activeTab |-> activeTab,
                fileList |-> fileList]
    IN /\ UNCHANGED records
       /\ IF allDone(L)
          THEN closeRun(run, runs, msg)
          ELSE /\ runs' = Append(runs, run)
               /\ progress' = <<[current |-> 0, total |-> Len(items)]>>
               /\ status' = st
               /\ errorMsg' = msg
               /\ ended' = NoRun
               /\ UNCHANGED separateImages

\* What a file adds to the images taken in.
sizeOfFile(file) == IF file.pages = 0 THEN 1 ELSE file.pages

RECURSIVE sizeOf(_)
sizeOf(fileList) ==
    IF fileList = <<>> THEN 0
    ELSE sizeOfFile(Head(fileList)) + sizeOf(Tail(fileList))

\* The lists of files, the empty one included, that add at most n images.
RECURSIVE FilesUpTo(_)
FilesUpTo(n) ==
    {<<>>} \cup UNION {{<<file>> \o rest : rest \in FilesUpTo(n - sizeOfFile(file))} :
                          file \in {f \in File(n) : sizeOfFile(f) <= n}}

\* The uploads of at most n images: the handler returns at once when no
\* file was chosen.
FileLists(n) == FilesUpTo(n) \ {<<>>}

\* The file input is disabled while status is SCANNING.
canUpload == status # SCANNING

\* handleFileUpload for a bucket (uploadTarget is p1, p2 or p3).
uploadSeparate(uploadTarget, fileList, failAt) ==
    LET r == extractFiles(fileList, 1, failAt, scanned, <<>>)
    IN /\ CASE r.end = "ok" ->
                 /\ separateImages' =
                       [separateImages EXCEPT ![uploadTarget] = @ \o r.newImages]
                 /\ scanned' = scanned + Len(r.newImages)
                 /\ status' = SUCCESS
                 /\ errorMsg' = Null
                 /\ timers' = timers + 1
            [] r.end = "thrown" ->
                 /\ status' = ERROR
                 /\ errorMsg' = MsgExtract
                 /\ timers' = timers + 1
                 /\ UNCHANGED <<separateImages, scanned>>
            [] r.end = "hung" ->
                 /\ status' = SCANNING
                 /\ errorMsg' = Null
                 /\ UNCHANGED <<separateImages, scanned, timers>>
       /\ ended' = NoRun
       /\ UNCHANGED <<progress, records, uuid, runs>>

\* handleFileUpload for upload target 'mix': the files are prepared, then
\* processQueue runs.
uploadMix(fileList, failAt) ==
    LET r == prepareFiles(fileList, 1, failAt, uuid, scanned, <<>>)
    IN /\ uuid' = r.uuid
       /\ CASE r.end = "ok" ->
                 /\ scanned' = scanned + Len(r.items)
                 /\ processQueue(r.items, SCANNING, Null, FALSE, fileList)
            [] r.end = "thrown" ->
                 /\ status' = ERROR
                 /\ errorMsg' = MsgReadFiles
                 /\ ended' = Unread("thrown", fileList, r.items)
                 /\ UNCHANGED <<progress, records, separateImages, scanned,
                                runs>>
            [] r.end = "hung" ->
                 /\ status' = SCANNING
                 /\ errorMsg' = Null
                 /\ ended' = Unread("hung", fileList, r.items)
                 /\ UNCHANGED <<progress, records, separateImages, scanned,
                                runs>>
       /\ UNCHANGED timers

\* handleFileUpload: the change event of the file input that
\* triggerUpload(uploadTarget) opened; limit is the bound on the images
\* taken in.
handleFileUploadWithin(limit, uploadTarget, fileList, failAt) ==
    /\ canUpload
    /\ input + sizeOf(fileList) <= limit
    /\ input' = input + sizeOf(fileList)
    /\ IF uploadTarget # "mix"
       THEN uploadSeparate(uploadTarget, fileList, failAt)
       ELSE uploadMix(fileList, failAt)
    /\ UNCHANGED <<activeTab, gwVars, csvVars>>

handleFileUpload(uploadTarget, fileList, failAt) ==
    handleFileUploadWithin(MaxInput, uploadTarget, fileList, failAt)

\* The process button is disabled while status is SCANNING and while the
\* three buckets are empty.
canProcessSeparate ==
    /\ status # SCANNING
    /\ ~(Len(separateImages.p1) = 0 /\ Len(separateImages.p2) = 0
           /\ Len(separateImages.p3) = 0)

\* handleProcessSeparate: the click on the process button; limit is the
\* bound on the images taken in.
handleProcessSeparateWithin(limit) ==
    /\ canProcessSeparate
    /\ LET maxLen == Max3(Len(separateImages.p1), Len(separateImages.p2),
                          Len(separateImages.p3))
           r == pairBuckets(0, maxLen, separateImages, uuid, <<>>)
       IN /\ maxLen # 0
          /\ input + Len(r.items) <= limit
          /\ input' = input + Len(r.items)
          /\ uuid' = r.uuid
          /\ processQueue(r.items, SCANNING, errorMsg, TRUE, <<>>)
    /\ UNCHANGED <<activeTab, timers, scanned, gwVars, csvVars>>

handleProcessSeparate == handleProcessSeparateWithin(MaxInput)

\* The timer that a bucket upload set fires: setStatus(IDLE).
resetToIdle ==
    /\ timers > 0
    /\ timers' = timers - 1
    /\ status' = IDLE
    /\ ended' = NoRun
    /\ UNCHANGED <<activeTab, errorMsg, progress, records, separateImages, uuid,
                   scanned, input, runs, gwVars, csvVars>>

\* processItem without its catch block: a failure of processOmrImage
\* rejects the promise of the item, so results.push and the delete are
\* skipped, Promise.race or Promise.all rejects and processQueue rejects.
CompleteRethrows(r, i, outcome) ==
    LET run == runs[r]
        success == outcome # Thrown
        tk == [run.task EXCEPT ![i].phase = IF success THEN "returned" ELSE "failed",
                               ![i].result = outcome]
        active == deletePromise(run.activePromises, i)
        L == IF run.pc = "race" THEN afterRace(run.nextItem, active, tk)
             ELSE [pc |-> run.pc, nextItem |-> run.nextItem,
                   activePromises |-> active, task |-> tk]
        run1 == [run EXCEPT !.task = L.task, !.nextItem = L.nextItem,
                            !.activePromises = L.activePromises,
                            !.results = Append(run.results, success),
                            !.pc = L.pc]
    IN IF success
       THEN /\ records' = prepend(newRecord(uuid + 1, run.items[i], outcome,
                         targetType(run.items[i], run.activeTab)), records)
            /\ uuid' = uuid + 1
            /\ IF allDone(L)
               THEN closeRun(run1, RemoveAt(runs, r), errorMsg)
               ELSE /\ runs' = [runs EXCEPT ![r] = run1]
                    /\ progress' = bumpProgress(progress, Len(run.items))
                    /\ ended' = NoRun
                    /\ UNCHANGED <<status, errorMsg, separateImages>>
            /\ UNCHANGED <<activeTab, timers, scanned, input, gwVars, csvVars>>
       ELSE /\ runs' = [runs EXCEPT ![r] = [run EXCEPT !.task = tk, !.pc = "rejected"]]
            /\ progress' = bumpProgress(progress, Len(run.items))
            /\ ended' = NoRun
            /\ UNCHANGED <<activeTab, status, errorMsg, records, separateImages,
                           timers, uuid, scanned, input, gwVars, csvVars>>

\* processItem that writes the store from the records of its render,
\* setRecords([newRecord, ...records]), not from the store of the moment.
CompleteStale(r, i, outcome) ==
    LET run == runs[r]
        success == outcome # Thrown
        tk == [run.task EXCEPT ![i].phase = IF success THEN "returned" ELSE "failed",
                               ![i].result = outcome]
        active == deletePromise(run.activePromises, i)
        L == IF run.pc = "race" THEN afterRace(run.nextItem, active, tk)
             ELSE [pc |-> run.pc, nextItem |-> run.nextItem,
                   activePromises |-> active, task |-> tk]
        run1 == [run EXCEPT !.task = L.task, !.nextItem = L.nextItem,
                            !.activePromises = L.activePromises,
                            !.results = Append(run.results, success),
                            !.pc = L.pc]
    IN /\ IF success
          THEN /\ records' = prepend(newRecord(uuid + 1, run.items[i], outcome,
                         targetType(run.items[i], run.activeTab)), run.startRecords)
               /\ uuid' = uuid + 1
          ELSE UNCHANGED <<records, uuid>>
       /\ IF allDone(L)
          THEN closeRun(run1, RemoveAt(runs, r), errorMsg)
          ELSE /\ runs' = [runs EXCEPT ![r] = run1]
               /\ progress' = bumpProgress(progress, Len(run.items))
               /\ ended' = NoRun
               /\ UNCHANGED <<status, errorMsg, separateImages>>
       /\ UNCHANGED <<activeTab, timers, scanned, input, gwVars, csvVars>>

\* processItem of item i of the r-th pending processQueue call ends, its
\* processOmrImage call having come to the given outcome: the record is
\* prepended, progress bumped (finally), the success flag pushed to
\* results, the promise deleted from the in-flight set, and the loop or
\* Promise.all, whichever waits, goes on.
Complete(r, i, outcome) ==
    LET run == runs[r]
        success == outcome # Thrown
        tk == [run.task EXCEPT ![i].phase = IF success THEN "returned" ELSE "failed",
                               ![i].result = outcome]
        active == deletePromise(run.activePromises, i)
        L == IF run.pc = "race" THEN afterRace(run.nextItem, active, tk)
             ELSE [pc |-> run.pc, nextItem |-> run.nextItem,
                   activePromises |-> active, task |-> tk]
        run1 == [run EXCEPT !.task = L.task, !.nextItem = L.nextItem,
                            !.activePromises = L.activePromises,
                            !.results = Append(run.results, success),
                            !.pc = L.pc]
    IN /\ IF success
          THEN /\ records' = prepend(newRecord(uuid + 1, run.items[i], outcome,
                         targetType(run.items[i], run.activeTab)), records)
               /\ uuid' = uuid + 1
          ELSE UNCHANGED <<records, uuid>>
       /\ IF allDone(L)
          THEN closeRun(run1, RemoveAt(runs, r), errorMsg)
          ELSE /\ runs' = [runs EXCEPT ![r] = run1]
               /\ progress' = bumpProgress(progress, Len(run.items))
               /\ ended' = NoRun
               /\ UNCHANGED <<status, errorMsg, separateImages>>
       /\ UNCHANGED <<activeTab, timers, scanned, input, gwVars, csvVars>>

\* The processOmrImage call of item i settles: it returned a result (try
\* block of processItem) or threw (catch block).
processOmrImageSettles(r, i, outcome) ==
    /\ r \in 1..Len(runs)
    /\ runs[r].pc \in {"race", "all"}
    /\ i \in 1..Len(runs[r].task)
    /\ runs[r].task[i].phase = "call"
    /\ Complete(r, i, outcome)

\* The tab buttons and the three counters of the overview: setActiveTab.
setActiveTab(type) ==
    /\ activeTab' = type
    /\ ended' = NoRun
    /\ UNCHANGED <<status, errorMsg, progress, records, separateImages, timers,
                   uuid, scanned, input, runs, gwVars, csvVars>>

\* { ...data, [field]: val }
withField(data, field, val) ==
    [k \in DOMAIN data \cup {field} |-> IF k = field THEN val ELSE data[k]]

\* A filter that drops the record and every record behind it.
RECURSIVE filterFrom(_, _)
filterFrom(prev, id) ==
    IF prev = <<>> \/ Head(prev).id = id THEN <<>>
    ELSE <<Head(prev)>> \o filterFrom(Tail(prev), id)

\* prev.filter(r => r.id !== id)
filter(prev, id) == SelectSeq(prev, LAMBDA r : r.id # id)

\* A map that puts the new data into every record.
mapAll(prev, id, newData) ==
    [k \in 1..Len(prev) |-> [prev[k] EXCEPT !.data = newData]]

\* prev.map(r => r.id === id ? { ...r, data: newData } : r)
map(prev, id, newData) ==
    [k \in 1..Len(prev) |->
        IF prev[k].id = id THEN [prev[k] EXCEPT !.data = newData] ELSE prev[k]]

\* deleteRecord(id): the delete button of a row of the list.
deleteRecord(id) ==
    /\ records' = filter(records, id)
    /\ ended' = NoRun
    /\ UNCHANGED <<activeTab, status, errorMsg, progress, separateImages, timers,
                   uuid, scanned, input, runs, gwVars, csvVars>>

\* updateRecord(id, newData): a cell of a row was edited.
updateRecord(id, newData) ==
    /\ records' = map(records, id, newData)
    /\ ended' = NoRun
    /\ UNCHANGED <<activeTab, status, errorMsg, progress, separateImages, timers,
                   uuid, scanned, input, runs, gwVars, csvVars>>

\* clearAllRecords: the Clear All button; confirmed is the answer to the
\* confirm dialog.
clearAllRecords(confirmed) ==
    /\ records' = IF confirmed THEN <<>> ELSE records
    /\ ended' = NoRun
    /\ UNCHANGED <<activeTab, status, errorMsg, progress, separateImages, timers,
                   uuid, scanned, input, runs, gwVars, csvVars>>

\* ------------------------------------------------------------ escapeCsv
\* A string is the sequence of its characters.  A value handed to
\* escapeCsv is null, undefined or a string.
NullValue == [type |-> "null", chars |-> <<>>]
UndefinedValue == [type |-> "undefined", chars |-> <<>>]
StringValue(str) == [type |-> "string", chars |-> str]

\* String(val)
String(val) == val.chars

\* str.replace('"', '""'), which replaces the first quote only.
RECURSIVE replaceFirst(_)
replaceFirst(str) ==
    IF str = <<>> THEN <<>>
    ELSE IF Head(str) = "\"" THEN <<"\"", "\"">> \o Tail(str)
    ELSE <<Head(str)>> \o replaceFirst(Tail(str))

\* str.replace(/"/g, '""')
RECURSIVE replace(_)
replace(str) ==
    IF str = <<>> THEN <<>>
    ELSE IF Head(str) = "\"" THEN <<"\"", "\"">> \o replace(Tail(str))
    ELSE <<Head(str)>> \o replace(Tail(str))

escapeCsv(val) ==
    IF val = NullValue \/ val = UndefinedValue THEN <<"\"", "\"">>
    ELSE <<"\"">> \o replace(String(val)) \o <<"\"">>

\* A cell of the CSV export is written: escapeCsv(val) is called.
callEscapeCsv ==
    /\ csvOut = <<>>
    /\ csvOut' = escapeCsv(csvVal)
    /\ UNCHANGED <<csvVal, appVars, gwVars>>

\* ---------------------------------------- one processItem call, inside
ScriptLen == maxRetries + 1

\* The oracle's answer to call number k; past the script it repeats its
\* last answer.
answer(script, k) == script[IF k > Len(script) THEN Len(script) ELSE k]

\* processItem calls processOmrImage; the while loop makes the first call.
GwInvoke(script) ==
    /\ gwPc = "idle"
    /\ gwScript' = script
    /\ gwPc' = "call"
    /\ gwCalls' = 1
    /\ UNCHANGED <<gwRetryCount, gwTimer, gwWaited, gwResult, appVars, csvVars>>

\* The pending oracle call settles: the try block completes and
\* processOmrImage returns (processItem returns true), or it throws and the
\* catch block starts a backoff wait or rethrows (processItem returns
\* false).
GwOracleSettles ==
    /\ gwPc = "call"
    /\ LET outcome == answer(gwScript, gwCalls)
       IN IF outcome = Parsed
          THEN /\ gwPc' = "returned"
               /\ gwResult' = "true"
               /\ UNCHANGED <<gwRetryCount, gwTimer>>
          ELSE IF willRetry(outcome, gwRetryCount)
          THEN /\ gwRetryCount' = gwRetryCount + 1
               /\ gwTimer' = waitTime(gwRetryCount + 1)
               /\ gwPc' = "wait"
               /\ UNCHANGED gwResult
          ELSE /\ gwPc' = "thrown"
               /\ gwResult' = "false"
               /\ UNCHANGED <<gwRetryCount, gwTimer>>
    /\ UNCHANGED <<gwScript, gwCalls, gwWaited, appVars, csvVars>>

\* The backoff timer fires: the while loop makes the next oracle call.
GwBackoffElapses ==
    /\ gwPc = "wait"
    /\ gwWaited' = gwWaited + gwTimer
    /\ gwTimer' = 0
    /\ gwCalls' = gwCalls + 1
    /\ gwPc' = "call"
    /\ UNCHANGED <<gwScript, gwRetryCount, gwResult, appVars, csvVars>>

GwInit ==
    /\ gwPc = "idle"
    /\ gwScript = <<>>
    /\ gwRetryCount = 0
    /\ gwCalls = 0
    /\ gwTimer = 0
    /\ gwWaited = 0
    /\ gwResult = "pending"

AppInit ==
    /\ activeTab = STUDENT_INFO
    /\ status = IDLE
    /\ errorMsg = Null
    /\ progress = NoProgress
    /\ records = <<>>
    /\ separateImages = NoImages
    /\ timers = 0
    /\ uuid = 0
    /\ scanned = 0
    /\ input = 0
    /\ runs = <<>>
    /\ ended = NoRun

\* escapeCsv has not been called.
CsvInit ==
    /\ csvVal = UndefinedValue
    /\ csvOut = <<>>

Init == AppInit /\ GwInit /\ CsvInit

UploadTargets == {"mix", "p1", "p2", "p3"}

\* The outcomes of Spec, which does not look into the records: a call
\* throws or returns what processOmrImage of services/geminiService.ts
\* returns, a result without pageType.
Plain == ResultsOf({Undefined}, {9}, {Sheet})

Settles ==
    \E r \in 1..MaxInput : \E i \in 1..MaxInput :
       \E outcome \in {Thrown} \cup Plain : processOmrImageSettles(r, i, outcome)

Next ==
    \/ /\ canUpload
       /\ \E fileList \in FileLists(MaxInput - input) :
             \E uploadTarget \in UploadTargets :
                \E failAt \in 0..Len(fileList) :
                   handleFileUpload(uploadTarget, fileList, failAt)
    \/ handleProcessSeparate
    \/ resetToIdle
    \/ Settles

Spec == Init /\ [][Next]_vars

NextGateway ==
    \/ /\ gwPc = "idle"
       /\ \E script \in [1..ScriptLen -> Outcomes] : GwInvoke(script)
    \/ GwOracleSettles
    \/ GwBackoffElapses

SpecGateway == Init /\ [][NextGateway]_vars

\* Every pending processOmrImage call settles at last.
SpecLive == Spec /\ WF_vars(Settles)

\* Every oracle call settles at last and every backoff timer fires.
SpecGatewayLive ==
    SpecGateway /\ WF_vars(GwOracleSettles) /\ WF_vars(GwBackoffElapses)

\* ------------------------------------------- the tabs and the records
\* Spec does not follow the tab: the tab buttons are always enabled, so a
\* change of tab can come before any click, and its behaviours are those
\* of the application with the changes of tab left out.  SpecTabs follows
\* the tab and looks into the results.
PageTypes == {STUDENT_INFO, VIBE_MATCH, EDU_STATS, MIX, SEPARATE}

\* The upload area that the tab shows: the three buckets and the process
\* button on the tab of the paired buckets, the one area elsewhere.
shows(uploadTarget) ==
    IF uploadTarget = "mix" THEN activeTab # SEPARATE ELSE activeTab = SEPARATE

\* What processOmrImage may return: no pageType, as
\* services/geminiService.ts does, or the variant found, here the
\* second one; two scores.
Results == ResultsOf({Undefined, VIBE_MATCH}, {5, 9}, {Sheet})

SettlesTabs ==
    \E r \in 1..MaxTabInput : \E i \in 1..MaxTabInput :
       \E outcome \in {Thrown} \cup Results : processOmrImageSettles(r, i, outcome)

NextTabs ==
    \/ \E type \in PageTypes : setActiveTab(type)
    \/ /\ canUpload
       /\ \E fileList \in FileLists(MaxTabInput - input) :
             \E uploadTarget \in UploadTargets :
                \E failAt \in 0..Len(fileList) :
                   /\ shows(uploadTarget)
                   /\ handleFileUploadWithin(MaxTabInput, uploadTarget, fileList, failAt)
    \/ shows("p1") /\ handleProcessSeparateWithin(MaxTabInput)
    \/ resetToIdle
    \/ SettlesTabs

SpecTabs == Init /\ [][NextTabs]_vars

\* ------------------------------------------------- the building of queues
\* The queue that a handler builds is a function of its input: the files
\* chosen, or the three buckets.  SpecQueue is the first handleFileUpload
\* call of the upload area, for every selection of files of up to
\* MaxQueue images; SpecPaired is the uploads to the buckets and the
\* clicks on the process button, up to MaxPaired images.  No call settles
\* in either.
NextQueue ==
    /\ input = 0
    /\ \E fileList \in FileLists(MaxQueue) :
          \E failAt \in 0..Len(fileList) :
             handleFileUploadWithin(MaxQueue, "mix", fileList, failAt)

NextPaired ==
    \/ /\ canUpload
       /\ \E fileList \in FileLists(MaxPaired - input) :
             \E uploadTarget \in UploadTargets \ {"mix"} :
                \E failAt \in 0..Len(fileList) :
                   handleFileUploadWithin(MaxPaired, uploadTarget, fileList, failAt)
    \/ handleProcessSeparateWithin(MaxPaired)
    \/ resetToIdle

SpecPaired == Init /\ [][NextPaired]_vars

SpecQueue == Init /\ [][NextQueue]_vars

\* ------------------------------------------- the response of the oracle
\* The try block of processOmrImage behind the oracle call: the text of
\* the response is taken, cleaned and parsed, and the parsed object is
\* made into the result.  An object is a function from the names of its
\* keys to their values, a key whose value is undefined being left out;
\* the names of a student are sequences of characters, since the code
\* looks into them.
EmptyObject == [k \in {} |-> ""]

has(obj, key) == key \in DOMAIN obj

\* const { key, ...rest } = obj
omit(obj, key) == [k \in DOMAIN obj \ {key} |-> obj[k]]

\* { ...a, ...b }
spread(a, b) == [k \in DOMAIN a \cup DOMAIN b |-> IF k \in DOMAIN b THEN b[k] ELSE a[k]]

\* obj.key = value, the key deleted when the value is undefined
assign(obj, key, from, fromKey) ==
    IF has(from, fromKey) THEN withField(obj, key, from[fromKey]) ELSE omit(obj, key)

\* A text is known by three things: whether it is the empty string,
\* whether it stands in a markdown fence (```json ... ```), and what is
\* written in it: the JSON of an object, or something JSON.parse does
\* not take.
Text(chars, fenced, value) == [chars |-> chars, fenced |-> fenced, value |-> value]
EmptyText == Text("", FALSE, EmptyObject)
Garbage == Text("garbage", FALSE, EmptyObject)
stringify(obj, fenced) == Text("json", fenced, obj)

\* response.text || "{}"
textOf(response) == IF response.text = EmptyText THEN stringify(EmptyObject, FALSE)
                    ELSE response.text

\* text.replace(/^```json\s*/, '').replace(/\s*```$/, '')
sanitize(text) == [text EXCEPT !.fenced = FALSE]

\* JSON.parse(text) throws
unparseable(text) == text.chars # "json" \/ text.fenced

RECURSIVE trimStart(_)
trimStart(str) ==
    IF str # <<>> /\ Head(str) = " " THEN trimStart(Tail(str)) ELSE str

RECURSIVE trimEnd(_)
trimEnd(str) ==
    IF str # <<>> /\ str[Len(str)] = " " THEN trimEnd(SubSeq(str, 1, Len(str) - 1))
    ELSE str

\* str.trim()
trim(str) == trimEnd(trimStart(str))

\* A test that takes a name of blanks for a name.
lacksLastNameUntrimmed(parsed) ==
    ~has(parsed, "lastName") \/ parsed.lastName = <<>>

\* !parsed.lastName || parsed.lastName.trim() === ''
lacksLastName(parsed) ==
    \/ ~has(parsed, "lastName")
    \/ parsed.lastName = <<>>
    \/ trim(parsed.lastName) = <<>>

\* parsed.handwrittenStatement || ""
statementOf(parsed) ==
    IF has(parsed, "handwrittenStatement") /\ parsed.handwrittenStatement # ""
    THEN parsed.handwrittenStatement ELSE ""

\* The undefined confidenceScore of a result.
NoScore == 0 - 1

scoreOf(parsed) == IF has(parsed, "confidenceScore") THEN parsed.confidenceScore ELSE NoScore

\* A result with the answers left in their own object.
flattenNot(parsed) ==
    assign([answers |-> parsed.answers, handwrittenStatement |-> statementOf(parsed)],
           "studentId", parsed, "studentId")

\* { ...parsed.answers, handwrittenStatement: ..., studentId: parsed.studentId }
flatten(parsed) ==
    assign(spread(parsed.answers, [handwrittenStatement |-> statementOf(parsed)]),
           "studentId", parsed, "studentId")

\* What the try block makes of the parsed object for the pageType asked
\* for.  The function returns data and confidenceScore, so the pageType
\* of the result reads as undefined.
resultOf(parsed, pageType) ==
    IF pageType = VIBE_MATCH /\ has(parsed, "answers")
    THEN [pageType |-> Undefined, data |-> flatten(parsed),
          confidenceScore |-> scoreOf(parsed)]
    ELSE LET named == IF pageType = STUDENT_INFO /\ lacksLastName(parsed)
                      THEN assign(parsed, "lastName", parsed, "firstName")
                      ELSE parsed
             rest == omit(named, "confidenceScore")
             safe == IF pageType = VIBE_MATCH /\ ~has(rest, "handwrittenStatement")
                     THEN withField(rest, "handwrittenStatement", "")
                     ELSE rest
         IN [pageType |-> Undefined, data |-> safe, confidenceScore |-> scoreOf(parsed)]

\* processOmrImage(base64Image, pageType) when the oracle call answers
\* with the response: the result, or the SyntaxError of JSON.parse, which
\* the catch block throws on.
processOmrImage(response, pageType) ==
    LET text == sanitize(textOf(response))
    IN IF unparseable(text) THEN Thrown ELSE resultOf(text.value, pageType)

\* The objects an oracle may write.  For a sheet of the first variant:
\* all that the schema requires, with a last name that is there, empty,
\* blank, or left out, and with or without a first name.
InfoSheet == [firstName |-> <<"A">>, lastName |-> <<"R", " ">>,
              whatsappNumber |-> "9876543210", studentId |-> "100118",
              confidenceScore |-> 9]
LastNames == {<<>>, <<" ">>, <<" ", " ">>, <<"R", " ">>}
InfoSheets ==
    LET last == {InfoSheet, omit(InfoSheet, "lastName")}
                   \cup {withField(InfoSheet, "lastName", n) : n \in LastNames}
    IN last \cup {omit(obj, "firstName") : obj \in last}

\* For a sheet of the second variant: the fourteen answers in an object
\* of their own or at top level, with or without the statement, the
\* student id and the score.
Questions == {"q1", "q2", "q3", "q4", "q5", "q6", "q7", "q8", "q9", "q10",
              "q11", "q12", "q13", "q14"}
Answers == {[q \in Questions |-> IF q = "q14" THEN 2 ELSE 3],
            [q \in Questions |-> IF q = "q1" THEN 5 ELSE 1]}
Statements == {"", "Training"}
VibeSheets ==
    LET nested == {[answers |-> a, studentId |-> "100039", confidenceScore |-> 9] :
                      a \in Answers}
        stated == nested \cup {withField(obj, "handwrittenStatement", st) :
                                  obj \in nested, st \in Statements}
        flat == {spread(a, [studentId |-> "100039", confidenceScore |-> 9]) :
                    a \in Answers}
    IN stated \cup flat
         \cup {omit(obj, "studentId") : obj \in nested}
         \cup {omit(obj, "confidenceScore") : obj \in nested}

Objects == {EmptyObject} \cup InfoSheets \cup VibeSheets
Responses ==
    {[text |-> EmptyText], [text |-> Garbage]}
       \cup {[text |-> stringify(obj, FALSE)] : obj \in Objects}
       \cup {[text |-> stringify(obj, TRUE)] : obj \in {InfoSheet}}

\* The result as the task of the item keeps it: with the response it was
\* made from, which processItem does not read.
madeFrom(response, result) ==
    IF result = Thrown THEN Thrown
    ELSE [pageType |-> result.pageType, data |-> result.data,
          confidenceScore |-> result.confidenceScore, response |-> response]

\* The oracle call of item i answers with the response.
generateContentReturns(r, i, response) ==
    /\ r \in 1..Len(runs)
    /\ i \in 1..Len(runs[r].items)
    /\ processOmrImageSettles(r, i,
          madeFrom(response,
              processOmrImage(response,
                  targetType(runs[r].items[i], runs[r].activeTab))))

\* SpecOracle is the upload area on the tabs with the responses of the
\* oracle in place of the results.
SettlesOracle ==
    \E r \in 1..MaxOracle : \E i \in 1..MaxOracle :
       \E response \in Responses : generateContentReturns(r, i, response)

NextOracle ==
    \/ \E type \in PageTypes \ {SEPARATE} : setActiveTab(type)
    \/ /\ canUpload
       /\ \E fileList \in FileLists(MaxOracle - input) :
             \E failAt \in 0..Len(fileList) :
                handleFileUploadWithin(MaxOracle, "mix", fileList, failAt)
    \/ SettlesOracle

SpecOracle == Init /\ [][NextOracle]_vars

\* SpecHint is the first upload of the upload area, of up to MaxHint
\* images, with the tab switched at any moment before and during the
\* batch.  The oracle answers with one of two objects that the three
\* kinds of hint treat differently: a sheet of the first variant without
\* last name, and the answers of the second in an object of their own.
HintResponses ==
    {[text |-> stringify(omit(InfoSheet, "lastName"), FALSE)],
     [text |-> stringify([answers |-> [q \in Questions |-> 3], studentId |-> "100039",
                          confidenceScore |-> 9], FALSE)]}

SettlesHint ==
    \E i \in 1..MaxHint :
       \E response \in HintResponses : generateContentReturns(1, i, response)

NextHint ==
    \/ \E type \in PageTypes \ {SEPARATE} : setActiveTab(type)
    \/ /\ input = 0
       /\ \E fileList \in FileLists(MaxHint) :
             handleFileUploadWithin(MaxHint, "mix", fileList, 0)
    \/ SettlesHint

SpecHint == Init /\ [][NextHint]_vars

\* ------------------------------------------------------- the CSV export
\* SpecCsv is one call of escapeCsv, for null, undefined and every
\* string of up to MaxLen characters over a letter, the quote and the
\* comma.
Alphabet == {"a", "\"", ","}

RECURSIVE StringsUpTo(_)
StringsUpTo(n) ==
    IF n = 0 THEN {<<>>}
    ELSE LET shorter == StringsUpTo(n - 1)
         IN shorter \cup {<<c>> \o str : c \in Alphabet, str \in shorter}

Values == {NullValue, UndefinedValue} \cup {StringValue(str) : str \in StringsUpTo(MaxLen)}

InitCsv == AppInit /\ GwInit /\ csvVal \in Values /\ csvOut = <<>>

NextCsv == callEscapeCsv

SpecCsv == InitCsv /\ [][NextCsv]_vars

\* ------------------------------------------------------- the records store
\* SpecStore is Spec with the three operations of the store that the list
\* and the Clear All button call, between any two tasks of a batch.  The
\* identifiers handed to deleteRecord and updateRecord are those of the
\* rows shown, which the store may have lost since (a second click on a
\* row not yet redrawn), or may never have held.
Ids == 1..(uuid + 1)

\* The data of a row after an edit of one cell.
Edits == {withField(Sheet, "studentId", "100119"), withField(Sheet, "city", "Pune")}

SettlesStore ==
    \E r \in 1..MaxStore : \E i \in 1..MaxStore :
       \E outcome \in {Thrown} \cup Plain : processOmrImageSettles(r, i, outcome)

NextStore ==
    \/ /\ canUpload
       /\ \E fileList \in FileLists(MaxStore - input) :
             \E uploadTarget \in UploadTargets :
                \E failAt \in 0..Len(fileList) :
                   handleFileUploadWithin(MaxStore, uploadTarget, fileList, failAt)
    \/ handleProcessSeparateWithin(MaxStore)
    \/ resetToIdle
    \/ SettlesStore
    \/ \E id \in Ids : deleteRecord(id)
    \/ \E id \in Ids : \E newData \in Edits : updateRecord(id, newData)
    \/ \E confirmed \in BOOLEAN : clearAllRecords(confirmed)

SpecStore == Init /\ [][NextStore]_vars

\* SpecClear is the upload area on the tabs with the Clear All button,
\* which the header shows on a tab of a variant while the store has a
\* record of the variant, and on the two other tabs while the store has a
\* record.  A result has no pageType, as services/geminiService.ts
\* returns it, or the variant found, the first or the second.
activeRecordsCount == Cardinality({k \in 1..Len(records) : records[k].pageType = activeTab})

showsClearAll ==
    IF activeTab = MIX \/ activeTab = SEPARATE
    THEN Len(records) > 0
    ELSE activeRecordsCount > 0

ClearResults == ResultsOf({Undefined, STUDENT_INFO, VIBE_MATCH}, {9}, {Sheet})

SettlesClear ==
    \E r \in 1..MaxClear : \E i \in 1..MaxClear :
       \E outcome \in {Thrown} \cup ClearResults : processOmrImageSettles(r, i, outcome)

NextClear ==
    \/ \E type \in PageTypes \ {SEPARATE} : setActiveTab(type)
    \/ /\ canUpload
       /\ \E fileList \in FileLists(MaxClear - input) :
             \E failAt \in 0..Len(fileList) :
                handleFileUploadWithin(MaxClear, "mix", fileList, failAt)
    \/ SettlesClear
    \/ /\ showsClearAll
       /\ \E confirmed \in BOOLEAN : clearAllRecords(confirmed)

SpecClear == Init /\ [][NextClear]_vars

\* ------------------------------------------------------------------ claims
Live == 1..Len(runs)
Items(run) == 1..Len(run.task)
InFlight(run) == {i \in Items(run) : run.task[i].phase = "call"}
Returned(run) == {i \in Items(run) : run.task[i].phase = "returned"}
Failed(run) == {i \in Items(run) : run.task[i].phase = "failed"}

\* The r-th pending processQueue call after the step: itself further on,
\* or the call that returned in the step.  Pending calls differ in their
\* queues.
After(r) ==
    IF \E q \in 1..Len(runs') : runs'[q].items = runs[r].items
    THEN runs'[CHOOSE q \in 1..Len(runs') : runs'[q].items = runs[r].items]
    ELSE ended'

\* C1: in every reachable state, in every processQueue call, the number
\* of items whose processOmrImage call has started and has not settled is
\* at most CONCURRENCY_LIMIT (3).
C1_AtMostLimitInFlight ==
    \A r \in Live : Cardinality(InFlight(runs[r])) <= CONCURRENCY_LIMIT

\* The ceiling is reached while an item still waits in the queue.
C1_Witness ==
    \E r \in Live :
        /\ Cardinality(InFlight(runs[r])) = CONCURRENCY_LIMIT
        /\ runs[r].pc = "race"
        /\ runs[r].task[runs[r].nextItem].phase = "queued"

\* C2: processOmrImage is invoked at most once per item; when a run
\* returns it has been invoked exactly once for every item of the queue
\* and every item has completed; and (every call settling at last) the
\* runs that have started return.
C2_EveryItemOnce ==
    /\ [](\A r \in Live : \A i \in Items(runs[r]) : runs[r].task[i].invoked <= 1)
    /\ [](ended.pc = "done" =>
             \A i \in Items(ended) :
                 ended.task[i].invoked = 1 /\ resolved(ended.task, i))
    /\ ((runs # <<>>) ~> (runs = <<>>))

\* A run over more items than the ceiling has returned.
C2_Witness ==
    /\ ended.pc = "done"
    /\ Len(ended.task) > CONCURRENCY_LIMIT
    /\ \A i \in Items(ended) : ended.task[i].invoked = 1

\* C3: when processOmrImage fails for an item, processItem returns false
\* (false is pushed to results), the items in flight stay in flight, the
\* item that waits for a free slot is dispatched, and processQueue goes
\* on or returns normally; when a run returns, every item of its queue
\* has completed and has its flag in results.
C3_FailureIsolated ==
    /\ [][\A r \in Live : \A i \in Items(runs[r]) :
             (runs[r].task[i].phase = "call" /\ After(r).task[i].phase = "failed") =>
                 /\ After(r).results = Append(runs[r].results, FALSE)
                 /\ \A j \in Items(runs[r]) \ {i} :
                       runs[r].task[j].phase = "call" => After(r).task[j].phase = "call"
                 /\ runs[r].nextItem <= Len(runs[r].task) =>
                       /\ After(r).task[runs[r].nextItem].phase = "call"
                       /\ After(r).nextItem = runs[r].nextItem + 1
                 /\ After(r).pc \in {"race", "all", "done"}]_vars
    /\ [](\A r \in Live : runs[r].pc \in {"race", "all"})
    /\ [](ended.pc = "done" =>
             /\ \A j \in Items(ended) : resolved(ended.task, j)
             /\ Len(ended.results) = Len(ended.items)
             /\ failCount(ended.results) = Cardinality(Failed(ended)))

\* A run in which the first item failed and the item behind the ceiling
\* was still dispatched and returned.
C3_Witness ==
    /\ ended.pc = "done"
    /\ Len(ended.task) > CONCURRENCY_LIMIT
    /\ ended.task[1].phase = "failed"
    /\ ended.task[Len(ended.task)].phase = "returned"
    /\ ended.results[1] = FALSE

\* C4: a run over n >= 1 items starts with progress (0, n); every
\* completion of one of its items raises the completed count by exactly
\* 1, the last one to n, after which the run resets progress; while the
\* run is pending no other step changes progress; the count never
\* exceeds n.
StartsRun == Len(runs') = Len(runs) + 1
Completes(r) == After(r).results # runs[r].results
C4_ProgressCounts ==
    [][/\ StartsRun =>
             progress' = <<[current |-> 0, total |-> Len(runs'[Len(runs')].items)]>>
       /\ \A r \in Live :
             IF Completes(r)
             THEN /\ progress # NoProgress
                  /\ progress[1].current + 1 <= Len(runs[r].items)
                  /\ IF After(r).pc = "done"
                     THEN /\ progress[1].current + 1 = Len(runs[r].items)
                          /\ progress' = NoProgress
                     ELSE progress' = <<[current |-> progress[1].current + 1,
                                         total |-> Len(runs[r].items)]>>
             ELSE progress' = progress]_vars

\* C5: when a run over n >= 1 items returns and every item failed, status
\* is ERROR, the error message is the quota hint, n failures of n are
\* counted and the store is what it was when the run started.
C5_AllFailed ==
    (ended.pc = "done" /\ Len(ended.items) >= 1 /\ Failed(ended) = Items(ended)) =>
        /\ status = "ERROR"
        /\ errorMsg = "Failed to process items. Please check your API quota."
        /\ Len(ended.results) = Len(ended.items)
        /\ failCount(ended.results) = Len(ended.items)
        /\ records = ended.startRecords

NewRecords == SubSeq(records, 1, Len(records) - Len(ended.startRecords))

\* C6: when a run returns and some but not all items failed, status is
\* SUCCESS, the error message is null, and the store is the store of the
\* start with one record in front for each item that returned and none
\* for an item that failed.
C6_PartialFailure ==
    (ended.pc = "done" /\ Failed(ended) # {} /\ Returned(ended) # {}) =>
        /\ status = "SUCCESS"
        /\ errorMsg = "null"
        /\ Len(records) = Len(ended.startRecords) + Cardinality(Returned(ended))
        /\ SubSeq(records, Len(records) - Len(ended.startRecords) + 1, Len(records))
              = ended.startRecords
        /\ \A i \in Returned(ended) :
              Cardinality({k \in 1..Len(NewRecords) :
                  NewRecords[k].originalImageUrl = ended.items[i].base64}) = 1
        /\ \A i \in Failed(ended) : \A k \in 1..Len(NewRecords) :
              NewRecords[k].originalImageUrl # ended.items[i].base64

\* C7: when a run returns and no item failed, the empty queue included,
\* status is SUCCESS and the error message is null.
C7_NoFailureNoError ==
    (ended.pc = "done" /\ Failed(ended) = {}) =>
        (status = "SUCCESS" /\ errorMsg = "null")

\* The rate-limit status signal of the oracle: HTTP 429, whose status name
\* is RESOURCE_EXHAUSTED.
ThrottleSignal(error) == error.status = 429 \/ error.hasExhausted

\* C8: a backoff wait that is pending is the wait before retry k = 1, 2,
\* 3 and lasts 2, 4, 8 seconds; every oracle call but the first comes
\* after such a wait, so there are at most 3 retries; a throttle signal is
\* rethrown only when the 3 retries are used up, and then no timer is set.
C8_Backoff ==
    /\ gwRetryCount <= 3
    /\ gwPc = "wait" =>
          /\ gwRetryCount \in 1..3
          /\ gwCalls = gwRetryCount
          /\ gwTimer = CASE gwRetryCount = 1 -> 2000
                         [] gwRetryCount = 2 -> 4000
                         [] gwRetryCount = 3 -> 8000
    /\ gwPc \in {"call", "returned", "thrown"} =>
          /\ gwCalls = gwRetryCount + 1
          /\ gwTimer = 0
          /\ gwWaited = CASE gwRetryCount = 0 -> 0
                          [] gwRetryCount = 1 -> 2000
                          [] gwRetryCount = 2 -> 2000 + 4000
                          [] gwRetryCount = 3 -> 2000 + 4000 + 8000
    /\ (gwPc = "thrown" /\ ThrottleSignal(answer(gwScript, gwCalls))) =>
          /\ gwRetryCount = 3
          /\ gwCalls = 4
          /\ gwResult = "false"

\* Four throttled calls: the error of the fourth is rethrown.
C8_Witness ==
    /\ gwPc = "thrown"
    /\ \A k \in 1..4 : ThrottleSignal(gwScript[k])
    /\ gwCalls = 4
    /\ gwWaited = 14000

\* C9: a backoff wait is pending only after an oracle call that failed
\* with a throttle signal: any other failure is rethrown at once.
C9_OnlyThrottleRetried ==
    gwPc = "wait" => ThrottleSignal(answer(gwScript, gwCalls))

\* C10: when the first two oracle calls are throttled and the third is
\* answered validly, processOmrImage returns after 2 retries, 3 oracle
\* calls and 2 s + 4 s of backoff, and processItem returns true.
C10_TwoThrottlesThenValid ==
    (/\ gwPc \in {"returned", "thrown"}
     /\ ThrottleSignal(gwScript[1])
     /\ ThrottleSignal(gwScript[2])
     /\ gwScript[3] = Parsed) =>
        /\ gwPc = "returned"
        /\ gwRetryCount = 2
        /\ gwCalls = 3
        /\ gwWaited = 2000 + 4000
        /\ gwResult = "true"

\* Such a call has returned.
C10_Witness ==
    /\ gwPc = "returned"
    /\ ThrottleSignal(gwScript[1])
    /\ ThrottleSignal(gwScript[2])
    /\ gwScript[3] = Parsed
    /\ gwCalls = 3
    /\ gwResult = "true"

\* C11: the items whose call has started are the first ones of the queue,
\* in queue order, and the call of the item at zero-based index k >=
\* CONCURRENCY_LIMIT has started only if at least k - CONCURRENCY_LIMIT + 1
\* of the items before it have completed (an item is index i = k + 1
\* here); which of the earlier items those are is left open.
C11_AdmittedInOrder ==
    \A r \in Live :
        /\ \A i \in Items(runs[r]) :
              runs[r].task[i].phase # "queued" <=> i < runs[r].nextItem
        /\ \A i \in Items(runs[r]) :
              (i > CONCURRENCY_LIMIT /\ runs[r].task[i].phase # "queued") =>
                  Cardinality({j \in 1..(i - 1) : resolved(runs[r].task, j)})
                      >= i - CONCURRENCY_LIMIT

\* The item behind the ceiling is in flight after one completion, that of
\* the second item, while the first item is still in flight.
C11_Witness ==
    \E r \in Live :
        /\ Len(runs[r].task) > CONCURRENCY_LIMIT
        /\ runs[r].task[CONCURRENCY_LIMIT + 1].phase = "call"
        /\ runs[r].task[1].phase = "call"
        /\ resolved(runs[r].task, 2)
        /\ Cardinality({j \in Items(runs[r]) : resolved(runs[r].task, j)}) = 1

\* The processOmrImage call of item i of the r-th pending run returns in
\* the step.
Succeeds(r, i) ==
    runs[r].task[i].phase = "call" /\ After(r).task[i].phase = "returned"

\* The hint that processItem passes to processOmrImage for item i.
Hint(run, i) == targetType(run.items[i], run.activeTab)

C13_PreparationFailureAborts ==
    [][ended'.pc \in {"thrown", "hung"} =>
          /\ status' = "ERROR"
          /\ errorMsg' = "Failed to read files (PDF conversion or image reading failed)."
          /\ runs' = runs
          /\ progress' = progress
          /\ records' = records]_vars

\* The processQueue calls in sight: the pending ones and the one that
\* returned in the step just taken.
Queues == {runs[r] : r \in Live} \cup (IF ended.pc = "done" THEN {ended} ELSE {})

\* The items that handleFileUpload made of file f of its selection, as
\* positions in the queue, and the zero-based page index of the item at
\* position q: the images of a document are read in page order.
PagesOf(run, f) == {q \in 1..Len(run.items) : run.items[q].fileName = f}
PageIndex(run, q) ==
    Cardinality({b \in PagesOf(run, run.items[q].fileName) :
                    run.items[b].base64 < run.items[q].base64})
Documents(run) == {f \in 1..Len(run.fileList) : run.fileList[f].type = "pdf"}

\* C14: in the queue that handleFileUpload builds, a document of p pages
\* has p items, each with a group identifier; two of them have the same
\* identifier exactly when their page indices k have the same
\* floor(k / 3); the identifier of a page with k > 0 and k % 3 = 0 is
\* carried by no image read before it; and the document has ceil(p / 3)
\* identifiers.
C14_ChunksOfThree ==
    \A run \in Queues : ~run.separate =>
        \A f \in Documents(run) :
            LET P == PagesOf(run, f)
                p == run.fileList[f].pages
            IN /\ Cardinality(P) = p
               /\ \A a \in P : run.items[a].groupId # NoGroup
               /\ \A a, b \in P :
                     (run.items[a].groupId = run.items[b].groupId)
                        <=> (PageIndex(run, a) \div 3 = PageIndex(run, b) \div 3)
               /\ \A a \in P :
                     (PageIndex(run, a) > 0 /\ PageIndex(run, a) % 3 = 0) =>
                        \A b \in 1..Len(run.items) :
                           run.items[b].base64 < run.items[a].base64 =>
                              run.items[b].groupId # run.items[a].groupId
               /\ Cardinality({run.items[a].groupId : a \in P}) = (p + 2) \div 3

\* A document of 7 pages in the queue: 3 identifiers, on the pages 0 to
\* 2, 3 to 5 and 6.
C14_Witness ==
    \E run \in Queues : \E f \in Documents(run) :
        /\ run.fileList[f].pages = 7
        /\ Cardinality({run.items[a].groupId : a \in PagesOf(run, f)}) = 3
        /\ \A a \in PagesOf(run, f) :
              run.items[a].groupId =
                 run.items[CHOOSE b \in PagesOf(run, f) :
                              PageIndex(run, b) = 3 * (PageIndex(run, a) \div 3)].groupId

Buckets == {"p1", "p2", "p3"}
BucketType(b) ==
    CASE b = "p1" -> STUDENT_INFO [] b = "p2" -> VIBE_MATCH [] b = "p3" -> EDU_STATS
Slots(images) == {<<b, i>> \in Buckets \X (1..MaxPaired) : i <= Len(images[b])}
SlotOf(images, item) ==
    CHOOSE s \in Slots(images) :
        images[s[1]][s[2]] = item.base64 /\ BucketType(s[1]) = item.predefinedType

\* The step starts a batch of handleProcessSeparate; Started is its
\* processQueue call.
Started == runs'[Len(runs')]
StartsPaired == StartsRun /\ Started.separate

\* C16: when handleProcessSeparate starts a batch, every item of the
\* queue is the image at some index of some bucket; two items have the
\* same group identifier exactly when they come from the same index; the
\* indices that have items are those from the first to the length of the
\* longest bucket; and a bucket gives an item for an index exactly when
\* it has an image there.
C16_PairedByIndex ==
    [][StartsPaired =>
          LET images == separateImages
              items == Started.items
              Q == 1..Len(items)
          IN /\ \A q \in Q : \E s \in Slots(images) :
                   /\ images[s[1]][s[2]] = items[q].base64
                   /\ BucketType(s[1]) = items[q].predefinedType
             /\ \A q \in Q : items[q].groupId # NoGroup
             /\ \A a, b \in Q :
                   (items[a].groupId = items[b].groupId)
                      <=> (SlotOf(images, items[a])[2] = SlotOf(images, items[b])[2])
             /\ \A i \in 1..MaxPaired :
                   (\E q \in Q : SlotOf(images, items[q])[2] = i)
                      <=> (\E b \in Buckets : i <= Len(images[b]))
             /\ \A s \in Buckets \X (1..MaxPaired) :
                   (s \in Slots(images))
                      <=> (\E q \in Q : /\ items[q].predefinedType = BucketType(s[1])
                                        /\ SlotOf(images, items[q]) = s)]_vars

\* A batch of buckets of lengths 2, 1 and 0 is pending: the two images of
\* the first index share an identifier, the third image has another.
C16_Witness ==
    \E r \in Live :
        /\ runs[r].separate
        /\ Len(runs[r].items) = 3
        /\ runs[r].items[1].groupId = runs[r].items[2].groupId
        /\ runs[r].items[3].groupId # runs[r].items[1].groupId
        /\ runs[r].items[1].predefinedType = STUDENT_INFO
        /\ runs[r].items[2].predefinedType = VIBE_MATCH
        /\ runs[r].items[3].predefinedType = STUDENT_INFO

\* The buckets in the order in which handleProcessSeparate looks at them.
BucketRank(b) == CASE b = "p1" -> 1 [] b = "p2" -> 2 [] b = "p3" -> 3

\* C17: when handleProcessSeparate starts a batch, every image of the
\* three buckets is the image of exactly one item and the queue has no
\* other item; of two items the one of the lower index comes first and,
\* at the same index, the one of the earlier bucket; and the hint passed
\* to processOmrImage for an item is the variant of its bucket, whatever
\* the tab.
C17_PairedQueue ==
    [][StartsPaired =>
          LET images == separateImages
              items == Started.items
              Q == 1..Len(items)
          IN /\ Len(items) = Len(images.p1) + Len(images.p2) + Len(images.p3)
             /\ \A s \in Slots(images) :
                   Cardinality({q \in Q : items[q].base64 = images[s[1]][s[2]]}) = 1
             /\ \A a, b \in Q :
                   a < b =>
                      LET sa == SlotOf(images, items[a])
                          sb == SlotOf(images, items[b])
                      IN \/ sa[2] < sb[2]
                         \/ sa[2] = sb[2] /\ BucketRank(sa[1]) < BucketRank(sb[1])
             /\ \A q \in Q :
                   /\ items[q].predefinedType = BucketType(SlotOf(images, items[q])[1])
                   /\ Hint(Started, q) = BucketType(SlotOf(images, items[q])[1])]_vars

\* A batch of buckets of lengths 2, 1 and 0 is pending: the image of the
\* second bucket, read last, is second in the queue, and its call was
\* made with the variant of its bucket, which is not the tab.
C17_Witness ==
    \E r \in Live :
        /\ runs[r].separate
        /\ Len(runs[r].items) = 3
        /\ runs[r].items[2].base64 > runs[r].items[3].base64
        /\ runs[r].items[3].base64 > runs[r].items[1].base64
        /\ runs[r].task[2].phase = "call"
        /\ Hint(runs[r], 2) = VIBE_MATCH
        /\ runs[r].activeTab # VIBE_MATCH

\* The image files of the selection of a handleFileUpload batch.
ImageFiles(run) == {f \in 1..Len(run.fileList) : run.fileList[f].type = "image"}

\* C18: in every batch of handleFileUpload each image file of the
\* selection has exactly one item in the queue, an item with no group
\* identifier and no predefinedType; the hint passed to processOmrImage
\* for it is the tab that was active when the batch started; and the
\* record made when its recognition succeeds has no linkedGroupId.
C18_ImageItem ==
    /\ [](\A run \in Queues : ~run.separate =>
             \A f \in ImageFiles(run) :
                /\ Cardinality(PagesOf(run, f)) = 1
                /\ \A q \in PagesOf(run, f) :
                      /\ run.items[q].fileType = "image"
                      /\ run.items[q].groupId = NoGroup
                      /\ run.items[q].predefinedType = Undefined
                      /\ Hint(run, q) = run.activeTab)
    /\ [][/\ (StartsRun /\ ~Started.separate) => Started.activeTab = activeTab
          /\ \A r \in Live : \A i \in Items(runs[r]) :
                (Succeeds(r, i) /\ runs[r].items[i].fileType = "image") =>
                    /\ Head(records').originalImageUrl = runs[r].items[i].base64
                    /\ Head(records').linkedGroupId = NoGroup]_vars

\* A batch started on the auto-detect tab has returned: an image of it
\* was recognized with that tab as hint and its record has no group.
C18_Witness ==
    /\ ended.pc = "done"
    /\ ended.activeTab = MIX
    /\ \E f \in ImageFiles(ended) : \E q \in PagesOf(ended, f) :
          /\ ended.task[q].phase = "returned"
          /\ Hint(ended, q) = MIX
          /\ \E k \in 1..Len(records) :
                /\ records[k].originalImageUrl = ended.items[q].base64
                /\ records[k].linkedGroupId = NoGroup

\* The number of items that a file stands for, and the number of items of
\* the files before file f of a selection.
ItemsOfFile(file) == IF file.type = "pdf" THEN file.pages ELSE 1
RECURSIVE ItemsBefore(_, _)
ItemsBefore(fileList, f) ==
    IF f <= 1 THEN 0
    ELSE ItemsBefore(fileList, f - 1) + ItemsOfFile(fileList[f - 1])

\* C19: the queue of a handleFileUpload batch is the items of the first
\* file, then those of the second, and so on, the pages of a document in
\* page order: it has as many items as the files have images and pages,
\* and page k (from 0) of file f, a document or an image, is at position
\* k + 1 behind the items of the files before f.
C19_QueueInFileOrder ==
    \A run \in Queues : ~run.separate =>
        /\ Len(run.items)
              = ItemsBefore(run.fileList, Len(run.fileList) + 1)
        /\ \A f \in 1..Len(run.fileList) :
              \A k \in 0..(ItemsOfFile(run.fileList[f]) - 1) :
                 LET q == ItemsBefore(run.fileList, f) + k + 1
                 IN /\ q <= Len(run.items)
                    /\ run.items[q].fileName = f
                    /\ PageIndex(run, q) = k
                    /\ run.items[q].fileType
                          = IF run.fileList[f].type = "pdf" THEN "pdf_page" ELSE "image"
        /\ \A a, b \in 1..Len(run.items) :
              a < b => run.items[a].base64 < run.items[b].base64

\* The queue of an image, a document of two pages and an image.
C19_Witness ==
    \E run \in Queues :
        /\ ~run.separate
        /\ Len(run.fileList) = 3
        /\ run.fileList[2] = [type |-> "pdf", pages |-> 2]
        /\ [q \in 1..Len(run.items) |-> run.items[q].fileName] = <<1, 2, 2, 3>>
        /\ [q \in 1..Len(run.items) |-> run.items[q].fileType]
              = <<"image", "pdf_page", "pdf_page", "image">>

\* C20: the record put in the store when the recognition of an item
\* succeeds has the image and the group identifier of that item, none
\* when the item has none, whichever items of the batch completed before
\* it; and the records already in the store keep theirs.
C20_GroupOfOwnItem ==
    [][\A r \in Live : \A i \in Items(runs[r]) :
          Succeeds(r, i) =>
              /\ Head(records').originalImageUrl = runs[r].items[i].base64
              /\ Head(records').linkedGroupId = runs[r].items[i].groupId
              /\ Tail(records') = records]_vars

\* A batch has returned in which an item with a group completed after a
\* later item without one: each record has what its own item has.
C20_Witness ==
    /\ ended.pc = "done"
    /\ \E i, j \in Items(ended) : \E k1, k2 \in 1..Len(records) :
          /\ i < j
          /\ k1 < k2
          /\ ended.items[i].groupId # NoGroup
          /\ ended.items[j].groupId = NoGroup
          /\ records[k1].originalImageUrl = ended.items[i].base64
          /\ records[k1].linkedGroupId = ended.items[i].groupId
          /\ records[k2].originalImageUrl = ended.items[j].base64
          /\ records[k2].linkedGroupId = NoGroup

\* The step adds a record to the store.
Inserts == Len(records') > Len(records)

\* C21: a step that adds a record puts exactly one record at the front
\* of the store and leaves the records there were behind it, none
\* dropped, none moved; so when a run returns, the records there were at
\* its start are the tail of the store and the records added since stand
\* ahead of them, the most recently completed first.
C21_InsertedAtFront ==
    /\ [][Inserts => records' = <<Head(records')>> \o records]_vars
    /\ [][\A r \in Live : \A i \in Items(runs[r]) :
             Succeeds(r, i) =>
                 /\ Inserts
                 /\ Head(records').originalImageUrl = runs[r].items[i].base64
                 /\ \A k \in 1..Len(records) :
                       Head(records').scannedAt > records[k].scannedAt]_vars
    /\ [](ended.pc = "done" =>
             /\ Len(records) >= Len(ended.startRecords)
             /\ records = NewRecords \o ended.startRecords
             /\ \A p \in 1..Len(NewRecords) : \A q \in 1..Len(NewRecords) :
                   p < q => NewRecords[p].scannedAt > NewRecords[q].scannedAt)

\* A run has returned that found records in the store and added two.
C21_Witness ==
    /\ ended.pc = "done"
    /\ Len(ended.startRecords) >= 1
    /\ Len(records) >= Len(ended.startRecords) + 2
    /\ Cardinality(Returned(ended)) >= 2

\* The places of the store at which the record has the identifier.
Holds(id) == {k \in 1..Len(records) : records[k].id = id}

\* C22: a step that is updateRecord(id, newData) leaves the store as long
\* as it was; the record with the identifier has the new data and its
\* id, pageType, scannedAt, linkedGroupId, confidenceScore and
\* originalImageUrl as before; every other record is as it was, at its
\* place; with an identifier that no record has the store is unchanged.
C22_UpdateChangesDataOnly ==
    [][\A id \in Ids : \A newData \in Edits :
          updateRecord(id, newData) =>
             /\ Len(records') = Len(records)
             /\ \A k \in 1..Len(records) :
                   IF k \in Holds(id)
                   THEN /\ records'[k].data = newData
                        /\ records'[k].id = records[k].id
                        /\ records'[k].pageType = records[k].pageType
                        /\ records'[k].scannedAt = records[k].scannedAt
                        /\ records'[k].linkedGroupId = records[k].linkedGroupId
                        /\ records'[k].confidenceScore = records[k].confidenceScore
                        /\ records'[k].originalImageUrl = records[k].originalImageUrl
                   ELSE records'[k] = records[k]
             /\ Holds(id) = {} => records' = records]_vars

\* Of two records in the store the second one was edited, the first one
\* reads as it was scanned.
C22_Witness ==
    /\ Len(records) >= 2
    /\ records[1].data = Sheet
    /\ records[2].data \in Edits
    /\ records[2].data # Sheet

\* C23: a step that is deleteRecord(id) takes the record with the
\* identifier out of the store, one record at most, and keeps the others
\* in their order; with an identifier that no record has the store is
\* unchanged; status and error message are unchanged in both cases.
C23_DeleteRemovesOne ==
    [][\A id \in Ids :
          deleteRecord(id) =>
             /\ Cardinality(Holds(id)) <= 1
             /\ \A k \in Holds(id) : records' = RemoveAt(records, k)
             /\ Holds(id) = {} => records' = records
             /\ status' = status
             /\ errorMsg' = errorMsg]_vars

\* Two items of a batch of three images have returned, the first one
\* first; the record of the second, which stood in front, was deleted and
\* the record of the first is there.
C23_Witness ==
    \E r \in Live :
        /\ Len(runs[r].items) = 3
        /\ Returned(runs[r]) = {1, 2}
        /\ uuid = 2
        /\ Len(records) = 1
        /\ records[1].id = 1
        /\ records[1].originalImageUrl = runs[r].items[1].base64
        /\ status = SCANNING

\* C24: in every reachable state, whatever batches, deletes, updates and
\* clears there were, no two records of the store have the same id
\* (crypto.randomUUID returns a new value at each call).
C24_UniqueIds ==
    \A p \in 1..Len(records) : \A q \in 1..Len(records) :
        p # q => records[p].id # records[q].id

\* Two pages of one document are in the store, one of them edited, after
\* a record was taken out.
C24_Witness ==
    /\ Len(records) = 2
    /\ records[1].linkedGroupId # NoGroup
    /\ records[1].linkedGroupId = records[2].linkedGroupId
    /\ records[1].data \in Edits \ {Sheet}
    /\ records[2].data = Sheet
    /\ uuid > 3

\* What the schema asked for with the pageType requires of the object.
required(pageType) ==
    CASE pageType = STUDENT_INFO ->
            {"firstName", "lastName", "whatsappNumber", "studentId", "confidenceScore"}
      [] pageType = VIBE_MATCH -> {"answers", "studentId", "confidenceScore"}
      [] pageType = EDU_STATS -> {"q1", "q2", "studentId", "confidenceScore"}
      [] OTHER -> {}

\* The response is a text that parses to an object with the required
\* fields.
SatisfiesSchema(response, pageType) ==
    /\ response.text # EmptyText
    /\ ~unparseable(sanitize(response.text))
    /\ required(pageType) \subseteq DOMAIN response.text.value
    /\ pageType = VIBE_MATCH =>
          {"q1", "q5", "q10"} \subseteq DOMAIN response.text.value.answers

\* C25: the step in which the oracle call of an item answers with a
\* response that does not satisfy the schema asked for (empty text,
\* text that does not parse, required fields missing) adds no record,
\* pushes false to results, and leaves the other items in flight as
\* they are.
C25_InvalidResponseFails ==
    [][\A r \in Live : \A i \in Items(runs[r]) : \A response \in Responses :
          (/\ ~SatisfiesSchema(response, Hint(runs[r], i))
           /\ generateContentReturns(r, i, response)) =>
              /\ records' = records
              /\ After(r).task[i].phase = "failed"
              /\ After(r).results = Append(runs[r].results, FALSE)
              /\ \A j \in Items(runs[r]) \ {i} :
                    runs[r].task[j].phase = "call" => After(r).task[j].phase = "call"]_vars

\* The object that the oracle wrote for item i, whose call returned.
Written(run, i) == textOf(run.task[i].result.response).value

\* The records of item i in the store.
RecordsOf(run, i) ==
    {k \in 1..Len(records) : records[k].originalImageUrl = run.items[i].base64}

\* C26: when the hint is the second variant and the oracle wrote an
\* object with the answers q1..q14 in an object of their own, the data of
\* the record has q1..q14 at top level with the values written, no
\* answers object, the studentId written, and as handwrittenStatement
\* the one written, or the empty string when none was written.
C26_VibeFlattened ==
    \A run \in Queues : \A i \in Returned(run) :
        (/\ Hint(run, i) = VIBE_MATCH
         /\ has(Written(run, i), "answers")
         /\ Questions \subseteq DOMAIN Written(run, i).answers) =>
            /\ RecordsOf(run, i) # {}
            /\ \A k \in RecordsOf(run, i) :
                  LET data == records[k].data
                      parsed == Written(run, i)
                  IN /\ Questions \subseteq DOMAIN data
                     /\ \A q \in Questions : data[q] = parsed.answers[q]
                     /\ ~has(data, "answers")
                     /\ has(parsed, "studentId") =>
                           has(data, "studentId") /\ data.studentId = parsed.studentId
                     /\ has(data, "handwrittenStatement")
                     /\ IF has(parsed, "handwrittenStatement")
                        THEN data.handwrittenStatement = parsed.handwrittenStatement
                        ELSE data.handwrittenStatement = ""

\* On the tab of the second variant the oracle wrote the answers in an
\* object of their own, with the student id and without a statement; the
\* record has q14 = 2 and the empty statement.
C26_Witness ==
    /\ ended.pc = "done"
    /\ \E i \in Returned(ended) :
          /\ Hint(ended, i) = VIBE_MATCH
          /\ has(Written(ended, i), "answers")
          /\ ~has(Written(ended, i), "handwrittenStatement")
          /\ has(Written(ended, i), "studentId")
          /\ \E k \in RecordsOf(ended, i) :
                /\ records[k].data.q14 = 2
                /\ records[k].data.handwrittenStatement = ""
                /\ records[k].data.studentId = "100039"

\* C27: when the hint is the first variant, the data of the record has
\* the lastName that the oracle wrote if that is a name, and otherwise
\* (none written, the empty string, blanks only) the firstName written
\* as lastName.
C27_LastNameFallback ==
    \A run \in Queues : \A i \in Returned(run) :
        Hint(run, i) = STUDENT_INFO =>
            /\ RecordsOf(run, i) # {}
            /\ \A k \in RecordsOf(run, i) :
                  LET data == records[k].data
                      parsed == Written(run, i)
                  IN IF /\ has(parsed, "lastName")
                        /\ \E c \in 1..Len(parsed.lastName) : parsed.lastName[c] # " "
                     THEN has(data, "lastName") /\ data.lastName = parsed.lastName
                     ELSE /\ has(data, "lastName") = has(parsed, "firstName")
                          /\ has(data, "lastName") => data.lastName = parsed.firstName

\* Two images on the tab of the first variant: for one the oracle wrote
\* no last name, for the other blanks; both records have the first name
\* as last name.
C27_Witness ==
    /\ ended.pc = "done"
    /\ Len(ended.items) = 2
    /\ Returned(ended) = {1, 2}
    /\ Hint(ended, 1) = STUDENT_INFO
    /\ ~has(Written(ended, 1), "lastName")
    /\ has(Written(ended, 2), "lastName")
    /\ Written(ended, 2).lastName = <<" ", " ">>
    /\ Len(records) = 2
    /\ \A k \in 1..2 :
          /\ has(records[k].data, "lastName")
          /\ has(records[k].data, "firstName")
          /\ records[k].data.firstName = <<"A">>
          /\ records[k].data.lastName = records[k].data.firstName

\* C28: while a processQueue call is pending, progress is not null and
\* its completed count does not go down: a step that leaves the call
\* pending leaves progress at a count at least as high as before, and
\* progress becomes null only in the step in which the call returns, all
\* of its items having completed.
C28_ProgressMonotone ==
    [][\A r \in Live :
          IF After(r).pc = "done"
          THEN \A j \in Items(After(r)) : resolved(After(r).task, j)
          ELSE /\ progress' # NoProgress
               /\ progress # NoProgress
               /\ progress'[1].current >= progress[1].current]_vars

\* The places of the records that carry the group identifier.
GroupOf(g) == {k \in 1..Len(records) : records[k].linkedGroupId = g}

\* C29: in every reachable state the records that share a group
\* identifier number at most three, and no two of them have the same
\* pageType.
C29_GroupOnePerVariant ==
    \A g \in 1..uuid :
        /\ Cardinality(GroupOf(g)) <= 3
        /\ \A p \in GroupOf(g) : \A q \in GroupOf(g) :
              p # q => records[p].pageType # records[q].pageType

\* The number of quotes in a string.
RECURSIVE quotes(_)
quotes(str) ==
    IF str = <<>> THEN 0
    ELSE (IF Head(str) = "\"" THEN 1 ELSE 0) + quotes(Tail(str))

\* Two quotes in a row are read as one.
RECURSIVE halve(_)
halve(str) ==
    IF str = <<>> THEN <<>>
    ELSE IF Head(str) = "\"" /\ Len(str) >= 2 /\ str[2] = "\""
         THEN <<"\"">> \o halve(Tail(Tail(str)))
    ELSE <<Head(str)>> \o halve(Tail(str))

\* The reading of a quoted field: the outer quotes are stripped, doubled
\* quotes halved.
unescape(field) == halve(SubSeq(field, 2, Len(field) - 1))

\* C30: the string that escapeCsv returns for a string starts and ends
\* with a quote, has between them the characters of the string with
\* every quote doubled, and reads back as the string; for null and
\* undefined it is the empty quoted field.
C30_EscapeCsvRoundTrip ==
    csvOut # <<>> =>
        IF csvVal.type = "string"
        THEN /\ Len(csvOut) = Len(csvVal.chars) + quotes(csvVal.chars) + 2
             /\ Head(csvOut) = "\""
             /\ csvOut[Len(csvOut)] = "\""
             /\ quotes(csvOut) = 2 * quotes(csvVal.chars) + 2
             /\ unescape(csvOut) = csvVal.chars
        ELSE csvOut = <<"\"", "\"">>

\* escapeCsv has returned for a string with two quotes and a comma.
C30_Witness ==
    /\ csvVal.type = "string"
    /\ quotes(csvVal.chars) = 2
    /\ \E k \in 1..Len(csvVal.chars) : csvVal.chars[k] = ","
    /\ csvOut # <<>>
    /\ unescape(csvOut) = csvVal.chars

\* C31: in every reachable state at most one processQueue call is
\* pending, and while one is pending the status is SCANNING (the file
\* input and the process button are disabled), also when the timer of a
\* bucket upload that ended before the batch started fires during it.
C31_OneRunScanning ==
    /\ Len(runs) <= 1
    /\ runs # <<>> => status = SCANNING

\* C32: whenever the status is SCANNING it is later not SCANNING (every
\* oracle call settling at last): the upload that set it sets SUCCESS,
\* ERROR or IDLE, also when the reading of one of its image files fails.
C32_ScanningEnds == (status = SCANNING) ~> (status # SCANNING)

\* The step in which processItem of item i of the r-th pending call ends.
Settled(r, i) ==
    /\ runs[r].task[i].phase = "call"
    /\ After(r).task[i].phase \in {"returned", "failed"}

\* The identifiers of the records of a store.
IdsOf(store) == {store[k].id : k \in 1..Len(store)}

\* C33: under every interleaving of completions with deleteRecord,
\* updateRecord and Clear All, the store is what the completions put in,
\* less what was deleted, as last edited: every record has an identifier
\* that was handed out; the step in which an item completes keeps every
\* record of the store as it is and where it is behind what it adds (no
\* record of another completion dropped, no edit undone), adds one record
\* with a new identifier when the item succeeded and nothing when it
\* failed (no deleted record back); and no other step adds a record.
C33_StoreUnderInterleaving ==
    /\ [](IdsOf(records) \subseteq 1..uuid)
    /\ [][\A r \in Live : \A i \in Items(runs[r]) :
             Settled(r, i) =>
                LET added == Len(records') - Len(records)
                IN /\ added = IF Succeeds(r, i) THEN 1 ELSE 0
                   /\ \A k \in 1..Len(records) : records'[added + k] = records[k]
                   /\ \A k \in 1..added : records'[k].id \notin 1..uuid]_vars
    /\ [][(\A r \in Live : \A i \in Items(runs[r]) : ~Settled(r, i)) =>
             IdsOf(records') \subseteq IdsOf(records)]_vars

\* A batch of three images has returned with its last completion: all
\* three items succeeded, the record of one was deleted and the record of
\* another edited before the last one completed, and the store holds the
\* edited record behind the new one.
C33_Witness ==
    /\ ended.pc = "done"
    /\ Returned(ended) = {1, 2, 3}
    /\ uuid = 3
    /\ Len(records) = 2
    /\ records[1].data = Sheet
    /\ records[2].data \in Edits \ {Sheet}

\* C34: every record of an item of a batch of handleFileUpload is made
\* as processOmrImage makes it for the tab that was active when the batch
\* started, for the items dispatched at the start and for those
\* dispatched later alike; and a change of the tab leaves the pending
\* calls and every record, its variant included, as they are.
C34_HintOfBatchStart ==
    /\ [](\A run \in Queues : \A i \in Returned(run) :
             ~run.separate =>
                LET made == processOmrImage(run.task[i].result.response, run.activeTab)
                IN /\ run.task[i].result.data = made.data
                   /\ \A k \in RecordsOf(run, i) : records[k].data = made.data)
    /\ [][activeTab' # activeTab => runs' = runs /\ records' = records]_vars

\* A batch of four images started on the tab of the second variant has
\* returned with its last completion while the tab of the first variant
\* was active: the record of the fourth item, which was dispatched after
\* the start, has the answers at top level and no last name.
C34_Witness ==
    /\ ended.pc = "done"
    /\ Len(ended.items) = 4
    /\ ended.activeTab = VIBE_MATCH
    /\ activeTab = STUDENT_INFO
    /\ 4 \in Returned(ended)
    /\ has(Written(ended, 4), "answers")
    /\ \E k \in RecordsOf(ended, 4) :
          /\ has(records[k].data, "q14")
          /\ ~has(records[k].data, "answers")
          /\ ~has(records[k].data, "lastName")

\* C35: in every reachable state every record of the store has as
\* pageType one of the three sheet variants, whatever tab the batch was
\* started on: never the Auto or the Paired mode, never undefined.
C35_VariantOfThree ==
    \A k \in 1..Len(records) :
        records[k].pageType \in {STUDENT_INFO, VIBE_MATCH, EDU_STATS}

\* C36: whatever the oracle answers, call after call, processOmrImage
\* makes at most 4 oracle calls and waits at most 2 s + 4 s + 8 s in all,
\* and (every oracle call settling) a call of processOmrImage that was
\* made returns a result or throws an error.
C36_Terminates ==
    /\ [](gwCalls <= 4 /\ gwWaited + gwTimer <= 2000 + 4000 + 8000)
    /\ (gwPc = "call") ~> (gwPc \in {"returned", "thrown"})

\* Three throttled calls and a fourth that is answered: the result is
\* returned after 14 s of backoff.
C36_Witness ==
    /\ gwPc = "returned"
    /\ gwCalls = 4
    /\ gwWaited = 2000 + 4000 + 8000
    /\ \A k \in 1..3 : ThrottleSignal(gwScript[k])

\* The number of images that the files hold: one for an image file, one
\* for each page of a document.
RECURSIVE ImagesIn(_)
ImagesIn(fileList) ==
    IF fileList = <<>> THEN 0
    ELSE Head(fileList).pages + ImagesIn(Tail(fileList))

\* C37: the step that is an upload to a bucket, when every file is read,
\* puts the images of the files, in file and page order, behind the
\* images of the bucket; when the reading of a file fails it leaves the
\* bucket as it is and sets the status ERROR; in both cases the two other
\* buckets, the store and the pending calls are as before (no
\* processOmrImage call is made).
C37_BucketUpload ==
    [][\A uploadTarget \in Buckets : \A fileList \in FileLists(input' - input) :
          \A failAt \in 0..Len(fileList) :
             handleFileUploadWithin(MaxPaired, uploadTarget, fileList, failAt) =>
                /\ IF failAt = 0
                   THEN separateImages'[uploadTarget] =
                           separateImages[uploadTarget]
                              \o [p \in 1..ImagesIn(fileList) |-> scanned + p]
                   ELSE /\ separateImages'[uploadTarget] = separateImages[uploadTarget]
                        /\ status' = ERROR
                /\ \A other \in Buckets \ {uploadTarget} :
                      separateImages'[other] = separateImages[other]
                /\ records' = records
                /\ runs' = runs]_vars

\* C38: when a batch of handleProcessSeparate returns, the three buckets
\* are empty, whether its items succeeded or failed; and in a state in
\* which the three buckets are empty no step is a call of processQueue by
\* handleProcessSeparate: no such batch starts, and none returns that
\* was not pending, so that a click then changes nothing.
C38_BucketsCleared ==
    /\ [](ended.pc = "done" /\ ended.separate => separateImages = NoImages)
    /\ [][separateImages = NoImages =>
             /\ ~StartsPaired
             /\ (ended'.pc = "done" /\ ended'.separate) =>
                   \E r \in Live : runs[r].items = ended'.items]_vars

\* A batch of the buckets has returned in which one item failed and one
\* succeeded, and the buckets are empty.
C38_Witness ==
    /\ ended.pc = "done"
    /\ ended.separate
    /\ Failed(ended) # {}
    /\ Returned(ended) # {}
    /\ separateImages = NoImages

====
